---- MODULE Spec2Model ----
(***************************************************************************)
(* Model of src/bots/nox_crime.py: the crime-brief generator               *)
(* (ChicagoCrimeAnalyzer), the user table (UserDatabase), the Telegram     *)
(* handlers (NOXBotHandler) and the Stripe webhook.                        *)
(*                                                                         *)
(* Text is modelled as a sequence of one-character strings, so that        *)
(* substring tests and case conversion are computed, not assumed.          *)
(***************************************************************************)
EXTENDS Integers, Sequences, FiniteSets, TLC

VARIABLES
    resp,       \* outcome of the feed request made by fetch_crimes_near_location
    brief,      \* what generate_brief handed to its caller (NotRun before the call)
    users,      \* the users table: user_id -> row, or NoRow
    pending,    \* the pending_checkouts table
    user_data,  \* context.user_data of each chat, keyed by callback data
    conv,       \* ConversationHandler state of each chat
    shown,      \* inline buttons on screen in each chat
    sent,       \* what the last handled update made the program send
    last        \* the last handled update

vars == <<resp, brief, users, pending, user_data, conv, shown, sent, last>>

(***************************************************************************)
(* Bounds of the model.                                                    *)
(***************************************************************************)
\* longest feed response enumerated in full over the category alphabet
MaxCatLen == 4
\* longest feed response enumerated in full over the timestamp alphabet
MaxDateLen == 3
\* largest number of identical records appended to a short response
MaxPad == 60

(***************************************************************************)
(* Text.                                                                   *)
(***************************************************************************)
UpperChars == <<"A","B","C","D","E","F","G","H","I","J","K","L","M",
                "N","O","P","Q","R","S","T","U","V","W","X","Y","Z">>
LowerChars == <<"a","b","c","d","e","f","g","h","i","j","k","l","m",
                "n","o","p","q","r","s","t","u","v","w","x","y","z">>

IsUpperChar(ch) == \E i \in DOMAIN UpperChars : UpperChars[i] = ch
IsLowerChar(ch) == \E i \in DOMAIN LowerChars : LowerChars[i] = ch
IsCased(ch) == IsUpperChar(ch) \/ IsLowerChar(ch)

UpperChar(ch) ==
    IF IsLowerChar(ch)
    THEN UpperChars[CHOOSE i \in DOMAIN LowerChars : LowerChars[i] = ch]
    ELSE ch

LowerChar(ch) ==
    IF IsUpperChar(ch)
    THEN LowerChars[CHOOSE i \in DOMAIN UpperChars : UpperChars[i] = ch]
    ELSE ch

\* str.upper()
Upper(s) == [i \in DOMAIN s |-> UpperChar(s[i])]

\* str.title(): a cased character is upper-cased when the character before it
\* is not cased, and lower-cased otherwise
Title(s) ==
    [i \in DOMAIN s |->
        IF i > 1 /\ IsCased(s[i - 1]) THEN LowerChar(s[i]) ELSE UpperChar(s[i])]

\* Python's `sub in s` on strings
Contains(sub, s) ==
    \E i \in 0..(Len(s) - Len(sub)) : SubSeq(s, i + 1, i + Len(sub)) = sub

\* Python's None where a string is expected (no text equals it: the elements of
\* a text are single characters)
None == <<"None">>

THEFT == <<"T","H","E","F","T">>
BATTERY == <<"B","A","T","T","E","R","Y">>
BURGLARY == <<"B","U","R","G","L","A","R","Y">>
ROBBERY == <<"R","O","B","B","E","R","Y">>

\* the advisory strings of the recommendation rules
RecTheft == "Secure vehicles in view"
RecBattery == "Avoid solo walks after dark"
RecBurglary == "Verify locks before leaving"
RecRobbery == "Stay in lit areas after sunset"

(***************************************************************************)
(* Timestamps.  A 'date' value of the feed is a record: an ISO-8601 text   *)
(* is [kind |-> "iso"] with its fields as written, any other text is       *)
(* [kind |-> "text"], a JSON null is [kind |-> "null"].                    *)
(***************************************************************************)
IsLeap(y) == y % 4 = 0 /\ (y % 100 # 0 \/ y % 400 = 0)

DaysInMonth(y, m) ==
    IF m = 2 THEN (IF IsLeap(y) THEN 29 ELSE 28)
    ELSE IF m \in {4, 6, 9, 11} THEN 30 ELSE 31

RECURSIVE DaysBeforeMonth(_, _)
DaysBeforeMonth(y, m) ==
    IF m <= 1 THEN 0 ELSE DaysBeforeMonth(y, m - 1) + DaysInMonth(y, m - 1)

DaysBeforeYear(y) ==
    LET p == y - 1 IN p * 365 + (p \div 4) - (p \div 100) + (p \div 400)

\* date.toordinal(): 0001-01-01 is day 1
ToOrdinal(y, m, d) == DaysBeforeYear(y) + DaysBeforeMonth(y, m) + d

DayNames == <<"Monday", "Tuesday", "Wednesday", "Thursday", "Friday",
              "Saturday", "Sunday">>

\* dt.strftime('%A')
DayName(dt) == DayNames[((ToOrdinal(dt.y, dt.mo, dt.d) + 6) % 7) + 1]

\* str.replace('Z', '+00:00') on the text of a timestamp
ReplaceZ(date) ==
    IF date.kind = "iso" /\ date.tz = "Z"
    THEN [date EXCEPT !.tz = "+00:00"]
    ELSE date

\* datetime.fromisoformat accepts the text (otherwise it raises ValueError)
IsoFormatOk(date) ==
    /\ date.kind = "iso"
    /\ date.tz \in {"", "+00:00"}
    /\ date.y \in 1..9999
    /\ date.mo \in 1..12
    /\ date.d \in 1..DaysInMonth(date.y, date.mo)
    /\ date.h \in 0..23

ParseDropsZReplace(date) ==
    IF date.kind # "null" /\ IsoFormatOk(date)
    THEN [ok |-> TRUE, y |-> date.y, mo |-> date.mo, d |-> date.d, hour |-> date.h]
    ELSE [ok |-> FALSE]

\* datetime.fromisoformat(crime['date'].replace('Z', '+00:00')) inside the
\* try block: ok = FALSE when any exception was raised (None.replace raises
\* AttributeError, fromisoformat raises ValueError)
ParseDate(date) ==
    IF date.kind # "null" /\ IsoFormatOk(ReplaceZ(date))
    THEN [ok |-> TRUE, y |-> date.y, mo |-> date.mo, d |-> date.d, hour |-> date.h]
    ELSE [ok |-> FALSE]

Evening == "evening (6PM-midnight)"
LateNight == "late night (midnight-6AM)"
Morning == "morning (6AM-noon)"
Afternoon == "afternoon (noon-6PM)"

BucketLateNightTo5(hour) ==
    IF 18 <= hour /\ hour < 24 THEN Evening
    ELSE IF 0 <= hour /\ hour < 5 THEN LateNight
    ELSE IF 6 <= hour /\ hour < 12 THEN Morning
    ELSE Afternoon

\* the if/elif chain on dt.hour
Bucket(hour) ==
    IF 18 <= hour /\ hour < 24 THEN Evening
    ELSE IF 0 <= hour /\ hour < 6 THEN LateNight
    ELSE IF 6 <= hour /\ hour < 12 THEN Morning
    ELSE Afternoon

(***************************************************************************)
(* Counter and defaultdict(int): a dict is the sequence of its             *)
(* <<key, count>> items in insertion order.                                *)
(***************************************************************************)
HasKey(tally, k) == \E i \in DOMAIN tally : tally[i][1] = k

\* the dict after `tally[keys[i]] += 1` ran for i = 1, 2, ...: every key once,
\* in the order of its first insertion, with the number of its occurrences
Tally(keys) ==
    LET firsts == {i \in DOMAIN keys : \A j \in 1..(i - 1) : keys[j] # keys[i]}
        nth(k) == CHOOSE i \in firsts : Cardinality({j \in firsts : j <= i}) = k
    IN [k \in 1..Cardinality(firsts) |->
          <<keys[nth(k)],
            Cardinality({j \in DOMAIN keys : keys[j] = keys[nth(k)]})>>]

\* tally.get(k, default)
GetCount(tally, k, default) ==
    IF HasKey(tally, k)
    THEN tally[CHOOSE i \in DOMAIN tally : tally[i][1] = k][2]
    ELSE default

RECURSIVE SumCounts(_)
SumCounts(tally) ==
    IF tally = <<>> THEN 0 ELSE tally[1][2] + SumCounts(Tail(tally))

Front(s) == SubSeq(s, 1, Len(s) - 1)
Take(s, n) == SubSeq(s, 1, IF n < Len(s) THEN n ELSE Len(s))

\* c.get(key): the value, or None when the key is missing
Get(c, key) == IF key \in DOMAIN c THEN c[key] ELSE None

\* Counter(c.get('primary_type') for c in crimes)
CounterOf(crimes) ==
    Tally([i \in DOMAIN crimes |-> Get(crimes[i], "primary_type")])

\* x placed behind every item whose count is at least its own
InsertDesc(sorted, x) ==
    LET n == Cardinality({i \in DOMAIN sorted : sorted[i][2] >= x[2]})
    IN SubSeq(sorted, 1, n) \o <<x>> \o SubSeq(sorted, n + 1, Len(sorted))

RECURSIVE SortedDesc(_)
\* sorted(items, key=count, reverse=True): stable, equal counts keep their order
SortedDesc(items) ==
    IF items = <<>> THEN <<>>
    ELSE InsertDesc(SortedDesc(Front(items)), items[Len(items)])

MostCommonTakesAll(tally, n) == SortedDesc(tally)

\* Counter.most_common(n) = heapq.nlargest(n, items, key=count)
\*                        = sorted(items, key=count, reverse=True)[:n]
MostCommon(tally, n) == Take(SortedDesc(tally), n)

\* max(items, key=lambda x: x[1])[0]: the first item, in insertion order, whose
\* count no other item exceeds
MaxKey(tally) ==
    LET i == CHOOSE i \in DOMAIN tally :
                /\ \A j \in DOMAIN tally : tally[j][2] <= tally[i][2]
                /\ \A j \in 1..(i - 1) : tally[j][2] < tally[i][2]
    IN tally[i][1]

\* list(dict.fromkeys(xs)): duplicates dropped, first occurrences kept in order
RECURSIVE Dedupe(_)
Dedupe(xs) ==
    IF xs = <<>> THEN <<>>
    ELSE LET rest == Dedupe(Front(xs))
             x == xs[Len(xs)]
         IN IF \E i \in DOMAIN rest : rest[i] = x THEN rest ELSE Append(rest, x)

(***************************************************************************)
(* ChicagoCrimeAnalyzer.                                                   *)
(***************************************************************************)
\* the threshold of the elevated-activity line
ElevatedThreshold == 50

\* The feed's answer to the one GET of fetch_crimes_near_location: kind "ok"
\* carries the decoded JSON array, the other kinds are the exceptions that
\* requests.get, raise_for_status and response.json raise.
FailureKinds == {"network_error", "http_error", "bad_json"}

\* radius_km: float = 0.8, in tenths of a km (the unit of every radius below)
DefaultRadius == 8
\* the 111.0 km of one degree
KmPerDegree == 111

Abs(x) == IF x < 0 THEN -x ELSE x

\* The bounding box, each bound a fraction <<numerator, denominator>> of a
\* degree: lat -+ radius_km / 111.0 and lon -+ radius_km / (111.0 * abs(lat)),
\* for a latitude other than 0.
bounding_box(lat, lon, radius) ==
    LET lat_den == 10 * KmPerDegree
        lon_den == 10 * KmPerDegree * Abs(lat)
    IN [min_lat |-> <<lat * lat_den - radius, lat_den>>,
        max_lat |-> <<lat * lat_den + radius, lat_den>>,
        min_lon |-> <<lon * lon_den - radius, lon_den>>,
        max_lon |-> <<lon * lon_den + radius, lon_den>>]

\* fetch_crimes_near_location: the bounding box divides by abs(lat) before the
\* try block; inside it the one GET is made and every exception is logged and
\* answered with [].  `requests` are the GETs made.
fetch_crimes_near_location(lat, lon, radius, response) ==
    IF lat = 0
    THEN [exc |-> "ZeroDivisionError", requests |-> <<>>, crimes |-> <<>>]
    ELSE LET request == [kind |-> "GET", where |-> bounding_box(lat, lon, radius)]
         IN [exc |-> "none",
             requests |-> <<request>>,
             crimes |-> IF response.kind = "ok" THEN response.crimes ELSE <<>>]

\* one pass of the loop over crimes up to the two increments: the parsed
\* datetime, or ok = FALSE when the record has no 'date' or the parse raised
Moment(crime) ==
    IF "date" \notin DOMAIN crime THEN [ok |-> FALSE] ELSE ParseDate(crime.date)

IsParsed(dt) == dt.ok

\* time_blocks and days after the loop over crimes: a pass increments both
\* tallies, or neither
TimeTally(crimes) ==
    LET dts == SelectSeq([i \in DOMAIN crimes |-> Moment(crimes[i])], IsParsed)
    IN [time_blocks |-> Tally([i \in DOMAIN dts |-> Bucket(dts[i].hour)]),
        days |-> Tally([i \in DOMAIN dts |-> DayName(dts[i])])]

\* max(d.items(), key=lambda x: x[1])[0] if d else "unknown"
Riskiest(tally) == IF tally = <<>> THEN "unknown" ELSE MaxKey(tally)

\* the if/elif chain over one top category: at most one advisory
RuleFor(crime_type) ==
    IF Contains(THEFT, crime_type) THEN <<RecTheft>>
    ELSE IF Contains(BATTERY, crime_type) THEN <<RecBattery>>
    ELSE IF Contains(BURGLARY, crime_type) THEN <<RecBurglary>>
    ELSE IF Contains(ROBBERY, crime_type) THEN <<RecRobbery>>
    ELSE <<>>

RECURSIVE RawRecommendations(_)
\* the list `recommendations` after the loop over top_crimes
RawRecommendations(top_crimes) ==
    IF top_crimes = <<>> THEN <<>>
    ELSE RawRecommendations(Front(top_crimes))
            \o RuleFor(top_crimes[Len(top_crimes)][1])

RecommendationsKeepDuplicates(top_crimes) == Take(RawRecommendations(top_crimes), 3)

\* list(dict.fromkeys(recommendations))[:3]
Recommendations(top_crimes) == Take(Dedupe(RawRecommendations(top_crimes)), 3)

ElevatedAtThreshold(crimes) == Len(crimes) >= ElevatedThreshold

\* len(crimes) > 50
Elevated(crimes) == Len(crimes) > ElevatedThreshold

\* crime_types.most_common(3)
TopCrimes(crimes) == MostCommon(CounterOf(crimes), 3)

AllClear(address) == [kind |-> "all_clear", address |-> address, incidents |-> 0]

\* the text built from line 315 on; crime_type.title() raises AttributeError
\* for a top category that is None
Report(crimes, address) ==
    LET top_crimes == TopCrimes(crimes)
        t == TimeTally(crimes)
        riskiest_time == Riskiest(t.time_blocks)
        riskiest_day == Riskiest(t.days)
    IN IF \E i \in DOMAIN top_crimes : top_crimes[i][1] = None
       THEN [kind |-> "raised", exc |-> "AttributeError"]
       ELSE [kind |-> "report",
             address |-> address,
             incidents |-> Len(crimes),
             breakdown |-> [i \in DOMAIN top_crimes |->
                              <<Title(top_crimes[i][1]), top_crimes[i][2]>>],
             riskiest_day |-> riskiest_day,
             riskiest_time |-> riskiest_time,
             riskiest_count |-> GetCount(t.time_blocks, riskiest_time, 0),
             recommendations |-> Recommendations(top_crimes),
             elevated |-> Elevated(crimes)]

SummarizeNoEmptyCheck(crimes, address) == Report(crimes, address)

\* generate_brief from line 312 on: `if not crimes` returns the all-clear text
Summarize(crimes, address) ==
    IF crimes = <<>> THEN AllClear(address) ELSE Report(crimes, address)

\* generate_brief(lat, lon, address), given the feed's answer
generate_brief(lat, lon, address, response) ==
    LET f == fetch_crimes_near_location(lat, lon, DefaultRadius, response)
    IN IF f.exc # "none" THEN [kind |-> "raised", exc |-> f.exc]
       ELSE Summarize(f.crimes, address)

(***************************************************************************)
(* Feed responses the brief generator is applied to.                       *)
(***************************************************************************)
Theft_mixed == <<"T","h","e","f","t">>
MOTOR_VEHICLE_THEFT ==
    <<"M","O","T","O","R"," ","V","E","H","I","C","L","E"," ","T","H","E","F","T">>
BATTERY_THEFT == BATTERY \o <<" ">> \o THEFT
NARCOTICS == <<"N","A","R","C","O","T","I","C","S">>

Categories == {THEFT, Theft_mixed, MOTOR_VEHICLE_THEFT, BATTERY, BURGLARY,
               ROBBERY, BATTERY_THEFT, NARCOTICS}

Iso(y, mo, d, h, tz) == [kind |-> "iso", y |-> y, mo |-> mo, d |-> d, h |-> h, tz |-> tz]

MondayEvening == Iso(2024, 1, 1, 19, "")
TuesdayMorningZ == Iso(2024, 1, 2, 8, "Z")
February30 == Iso(2024, 2, 30, 10, "")
NotIsoText == [kind |-> "text"]
NullDate == [kind |-> "null"]

\* records that differ in their category (one has none)
CatIncidents ==
    {[primary_type |-> c, date |-> MondayEvening] : c \in Categories}
        \cup {[date |-> MondayEvening]}

\* records that differ in their timestamp (one has none)
DateIncidents ==
    {[primary_type |-> THEFT, date |-> dt] :
        dt \in {MondayEvening, TuesdayMorningZ, February30, NotIsoText, NullDate}}
        \cup {[primary_type |-> THEFT]}

\* one record for every hour of every day of a week
HourIncidents ==
    {[primary_type |-> BURGLARY, date |-> Iso(2024, 1, d, h, "")] :
        d \in 1..7, h \in 0..23}

SeqsUpTo(S, n) == UNION {[1..k -> S] : k \in 0..n}

Filler == [primary_type |-> BATTERY, date |-> TuesdayMorningZ]

Padded(head, n) == head \o [i \in 1..n |-> Filler]

FeedLists ==
    SeqsUpTo(CatIncidents, MaxCatLen)
        \cup SeqsUpTo(DateIncidents, MaxDateLen)
        \cup {<<c>> : c \in HourIncidents}
        \cup {Padded(head, n) :
                head \in SeqsUpTo(CatIncidents \cup DateIncidents, 1), n \in 0..MaxPad}

Responses ==
    {[kind |-> "ok", crimes |-> cs] : cs \in FeedLists}
        \cup {[kind |-> k] : k \in FailureKinds}

NotRun == [kind |-> "not_run"]
NoResponse == [kind |-> "none"]

\* coordinates are whole degrees; only lat = 0 is treated apart by the code
Home == [address |-> "233 S Wacker Dr", lat |-> 41, lon |-> -87]
HomeLat == Home.lat
HomeLon == Home.lon
HomeAddress == Home.address

(***************************************************************************)
(* SpecBrief: generate_brief applied to every feed response above.         *)
(***************************************************************************)
BotIdle ==
    /\ users = <<>>
    /\ pending = {}
    /\ user_data = <<>>
    /\ conv = <<>>
    /\ shown = <<>>
    /\ sent = <<>>
    /\ last = NoResponse

InitBrief ==
    /\ resp \in Responses
    /\ brief = NotRun
    /\ BotIdle

GenerateBrief ==
    /\ brief = NotRun
    /\ brief' = generate_brief(HomeLat, HomeLon, HomeAddress, resp)
    /\ UNCHANGED <<resp, users, pending, user_data, conv, shown, sent, last>>

NextBrief == GenerateBrief

SpecBrief == InitBrief /\ [][NextBrief]_vars

(***************************************************************************)
(* UserDatabase.  A row of the users table keeps the columns the handlers  *)
(* read or write; NULL is SQL NULL.                                        *)
(***************************************************************************)
\* most rows the pending_checkouts table is let grow to
MaxCheckouts == 1
\* most result messages with live buttons, over all chats
MaxMessages == 2

Users == {101, 102}
\* the users who set an address (by sharing a location or by typing one); the
\* other user only registers, subscribes and asks for briefs
AddressUsers == {101}
\* Stripe customer ids (records, so that a column can hold one or NULL)
Customers == {[id |-> "cus_A"], [id |-> "cus_B"]}

NULL == [null |-> TRUE]
NoRow == [row |-> FALSE]

\* the row INSERTed by register_user: the column defaults of CREATE TABLE
NewRow ==
    [row |-> TRUE, is_active |-> 0, subscription_tier |-> "free",
     stripe_customer_id |-> NULL, home |-> NULL]

RegisterUserActive(table, user_id) ==
    IF table[user_id] = NoRow
    THEN [table EXCEPT ![user_id] = [NewRow EXCEPT !.is_active = 1]]
    ELSE table

\* register_user: INSERT ... ON CONFLICT(user_id) DO UPDATE SET username,
\* first_name (columns the model does not keep)
register_user(table, user_id) ==
    IF table[user_id] = NoRow THEN [table EXCEPT ![user_id] = NewRow] ELSE table

\* the UNIQUE constraint on stripe_customer_id refuses the UPDATE
UniqueViolation(table, user_id, customer_id) ==
    /\ table[user_id] # NoRow
    /\ \E v \in Users : v # user_id /\ table[v] # NoRow
                          /\ table[v].stripe_customer_id = customer_id

\* activate_subscription: UPDATE users SET ... is_active = 1 WHERE user_id = ?
\* (no row, no change)
activate_subscription(table, user_id, customer_id, tier) ==
    IF table[user_id] = NoRow THEN table
    ELSE [table EXCEPT ![user_id] =
            [@ EXCEPT !.is_active = 1, !.subscription_tier = tier,
                      !.stripe_customer_id = customer_id]]

\* is_active: bool(result and result[0])
is_active(table, user_id) ==
    table[user_id] # NoRow /\ table[user_id].is_active # 0

\* set_address: UPDATE users SET home_address, home_lat, home_lon
\* WHERE user_id = ? (no row, no change)
set_address(table, user_id, place) ==
    IF table[user_id] = NoRow THEN table
    ELSE [table EXCEPT ![user_id] = [@ EXCEPT !.home = place]]

\* get_user_address: the saved place, or NULL (Python's None) when there is no
\* row or home_address is NULL or empty
get_user_address(table, user_id) ==
    IF table[user_id] # NoRow /\ table[user_id].home # NULL
          /\ table[user_id].home.address # ""
    THEN table[user_id].home
    ELSE NULL

(***************************************************************************)
(* GeoCoder: what the geocoding services answer is an input.               *)
(***************************************************************************)
Wrigley == [address |-> "1060 W Addison St", lat |-> 42, lon |-> -88]

\* locations a user can share
SharedLocations == {[lat |-> Home.lat, lon |-> Home.lon]}

\* f"{lat:.4f}, {lon:.4f}" for the shared locations
CoordText(loc) == "41.0000, -87.0000"

\* reverse_geocode: the first formatted address, or the coordinates as text
\* when there is no key, no result or an exception
reverse_geocode(loc, answered) ==
    IF answered THEN Home.address ELSE CoordText(loc)

\* geocode_text: at most 3 candidates; [] on any exception
CandidateLists == {<<>>, <<Home>>, <<Wrigley, Home>>}

CallbackKey(i) == <<"confirm_addr_", i - 1>>

(***************************************************************************)
(* NOXBotHandler and the Stripe webhook.  Updates of the bot are handled   *)
(* one at a time; each action is one handled update (or webhook request)   *)
(* and `sent` is what it made the program send.                            *)
(***************************************************************************)
\* feed answers drawn when /crime runs
BotResponses ==
    {[kind |-> "network_error"],
     [kind |-> "ok", crimes |-> <<>>],
     [kind |-> "ok", crimes |-> <<[primary_type |-> THEFT, date |-> MondayEvening]>>],
     [kind |-> "ok", crimes |-> <<[date |-> MondayEvening]>>]}

Msg(kind) == [kind |-> kind]

TotalMessages == Cardinality({<<u, m>> \in Users \X CandidateLists : m \in shown[u].results})

Init ==
    /\ resp = NoResponse
    /\ brief = NotRun
    /\ users = [u \in Users |-> NoRow]
    /\ pending = {}
    /\ user_data = [u \in Users |-> [i \in 1..3 |-> NULL]]
    /\ conv = [u \in Users |-> "END"]
    /\ shown = [u \in Users |-> [type_address |-> FALSE, results |-> {}]]
    /\ sent = <<>>
    /\ last = NoResponse

start_command(u) ==
    /\ users' = register_user(users, u)
    /\ sent' = <<Msg("welcome")>>
    /\ last' = [kind |-> "start_command", user |-> u]
    /\ UNCHANGED <<resp, brief, pending, user_data, conv, shown>>

setlocation_command(u) ==
    /\ shown' = [shown EXCEPT ![u].type_address = TRUE]
    /\ sent' = <<Msg("set_your_location"), Msg("or_use_these_options")>>
    /\ last' = [kind |-> "setlocation_command", user |-> u]
    /\ UNCHANGED <<resp, brief, users, pending, user_data, conv>>

handle_location(u, loc, answered) ==
    LET address == reverse_geocode(loc, answered)
        place == [address |-> address, lat |-> loc.lat, lon |-> loc.lon]
    IN /\ users' = set_address(users, u, place)
       /\ sent' = <<[kind |-> "location_saved", address |-> address]>>
       /\ last' = [kind |-> "handle_location", user |-> u]
       /\ UNCHANGED <<resp, brief, pending, user_data, conv, shown>>

\* the entry point of the conversation: taken only while no conversation runs
type_address_callback(u) ==
    /\ shown[u].type_address
    /\ conv[u] = "END"
    /\ conv' = [conv EXCEPT ![u] = "AWAITING_ADDRESS_TEXT"]
    /\ sent' = <<Msg("type_your_address")>>
    /\ last' = [kind |-> "type_address_callback", user |-> u]
    /\ UNCHANGED <<resp, brief, users, pending, user_data, shown>>

handle_address_text(u, candidates) ==
    /\ conv[u] = "AWAITING_ADDRESS_TEXT"
    /\ conv' = [conv EXCEPT ![u] = "END"]
    /\ last' = [kind |-> "handle_address_text", user |-> u]
    /\ IF candidates = <<>>
       THEN /\ sent' = <<Msg("finding"), Msg("no_results")>>
            /\ UNCHANGED <<user_data, shown>>
       ELSE /\ candidates \in shown[u].results \/ TotalMessages < MaxMessages
            /\ user_data' = [user_data EXCEPT ![u] =
                    [i \in 1..3 |-> IF i <= Len(candidates) THEN candidates[i] ELSE @[i]]]
            /\ shown' = [shown EXCEPT ![u].results = @ \cup {candidates}]
            /\ sent' = <<Msg("finding"),
                         [kind |-> "select_your_address",
                          buttons |-> [i \in DOMAIN candidates |-> candidates[i].address]]>>
    /\ UNCHANGED <<resp, brief, users, pending>>

\* the "None of these" button of result message m
cancel_address(u, m) ==
    /\ m \in shown[u].results
    /\ shown' = [shown EXCEPT ![u].results = @ \ {m}]
    /\ sent' = <<Msg("cancelled")>>
    /\ last' = [kind |-> "confirm_address_callback", user |-> u, data |-> "cancel_address"]
    /\ UNCHANGED <<resp, brief, users, pending, user_data, conv>>

\* button i of result message m: query.data is confirm_addr_<i-1>; the edit of
\* the message takes its buttons away
confirm_address_callback(u, m, i) ==
    /\ m \in shown[u].results
    /\ i \in DOMAIN m
    /\ LET selected == user_data[u][i]
       IN /\ last' = [kind |-> "confirm_address_callback", user |-> u,
                      data |-> CallbackKey(i), label |-> m[i].address]
          /\ shown' = [shown EXCEPT ![u].results = @ \ {m}]
          /\ IF selected = NULL
             THEN /\ sent' = <<Msg("error_try_again")>>
                  /\ UNCHANGED users
             ELSE /\ users' = set_address(users, u, selected)
                  /\ sent' = <<[kind |-> "location_saved", address |-> selected.address]>>
    /\ UNCHANGED <<resp, brief, pending, user_data, conv>>

\* price_id: whether os.getenv('STRIPE_PRICE_PERSONAL') gave a value;
\* created: whether stripe.checkout.Session.create returned (or raised)
subscribe_command(u, price_id, created) ==
    /\ last' = [kind |-> "subscribe_command", user |-> u]
    /\ IF ~price_id
       THEN /\ sent' = <<Msg("payment_config_error")>>
            /\ UNCHANGED pending
       ELSE IF created
       THEN /\ Cardinality(pending) < MaxCheckouts
            /\ pending' = pending \cup
                  {[checkout_session_id |-> Cardinality(pending) + 1,
                    user_id |-> u, tier |-> "personal"]}
            /\ sent' = <<Msg("generating_link"), Msg("payment_link")>>
       ELSE /\ sent' = <<Msg("generating_link"), Msg("payment_error")>>
            /\ UNCHANGED pending
    /\ UNCHANGED <<resp, brief, users, user_data, conv, shown>>

CrimeRepliesUpsellAlways(u, response) ==
    LET user_address == get_user_address(users, u)
        b == IF user_address = NULL THEN NotRun
             ELSE generate_brief(user_address.lat, user_address.lon, user_address.address, response)
    IN IF user_address = NULL THEN <<Msg("set_location_first")>>
       ELSE IF b.kind = "raised" THEN <<Msg("analyzing")>>
       ELSE <<Msg("analyzing"), [kind |-> "brief", brief |-> b], Msg("upsell")>>

\* the replies of crime_command: an exception of generate_brief ends the
\* handler after the first reply
CrimeReplies(u, response) ==
    LET user_address == get_user_address(users, u)
        b == IF user_address = NULL THEN NotRun
             ELSE generate_brief(user_address.lat, user_address.lon, user_address.address, response)
    IN IF user_address = NULL THEN <<Msg("set_location_first")>>
       ELSE IF b.kind = "raised" THEN <<Msg("analyzing")>>
       ELSE <<Msg("analyzing"), [kind |-> "brief", brief |-> b],
              IF ~is_active(users, u) THEN Msg("upsell") ELSE Msg("share_prompt")>>

crime_command(u, response) ==
    /\ sent' = CrimeReplies(u, response)
    /\ last' = [kind |-> "crime_command", user |-> u]
    /\ UNCHANGED <<resp, brief, users, pending, user_data, conv, shown>>

\* a request whose payload or signature construct_event refuses
stripe_webhook_invalid(why) ==
    /\ sent' = <<[kind |-> "http", status |-> 400, error |-> why]>>
    /\ last' = [kind |-> "stripe_webhook", verified |-> FALSE]
    /\ UNCHANGED <<resp, brief, users, pending, user_data, conv, shown>>

\* a verified event of another type
stripe_webhook_other ==
    /\ sent' = <<[kind |-> "http", status |-> 200]>>
    /\ last' = [kind |-> "stripe_webhook", verified |-> TRUE, type |-> "other"]
    /\ UNCHANGED <<resp, brief, users, pending, user_data, conv, shown>>

\* a verified checkout.session.completed whose metadata lacks user_id or
\* tier: the KeyError is answered with status 500
stripe_webhook_no_metadata ==
    /\ sent' = <<[kind |-> "http", status |-> 500]>>
    /\ last' = [kind |-> "stripe_webhook", verified |-> TRUE,
                type |-> "checkout.session.completed"]
    /\ UNCHANGED <<resp, brief, users, pending, user_data, conv, shown>>

\* a verified checkout.session.completed naming user_id and tier in its
\* metadata; the UPDATE that the UNIQUE constraint refuses raises and is
\* answered with status 500
stripe_webhook_completed(user_id, customer_id, tier) ==
    /\ last' = [kind |-> "stripe_webhook", verified |-> TRUE,
                type |-> "checkout.session.completed", user_id |-> user_id]
    /\ IF UniqueViolation(users, user_id, customer_id)
       THEN /\ sent' = <<[kind |-> "http", status |-> 500]>>
            /\ UNCHANGED users
       ELSE /\ users' = activate_subscription(users, user_id, customer_id, tier)
            /\ sent' = <<[kind |-> "http", status |-> 200]>>
    /\ UNCHANGED <<resp, brief, pending, user_data, conv, shown>>

Next ==
    \/ \E u \in Users : start_command(u)
    \/ \E u \in Users : setlocation_command(u)
    \/ \E u \in AddressUsers, loc \in SharedLocations, answered \in BOOLEAN :
          handle_location(u, loc, answered)
    \/ \E u \in AddressUsers : type_address_callback(u)
    \/ \E u \in Users, cs \in CandidateLists : handle_address_text(u, cs)
    \/ \E u \in Users, m \in CandidateLists : cancel_address(u, m)
    \/ \E u \in Users, m \in CandidateLists, i \in 1..3 : confirm_address_callback(u, m, i)
    \/ \E u \in Users, price_id \in BOOLEAN, created \in BOOLEAN :
          subscribe_command(u, price_id, created)
    \/ \E u \in Users, r \in BotResponses : crime_command(u, r)
    \/ \E why \in {"Invalid payload", "Invalid signature"} : stripe_webhook_invalid(why)
    \/ stripe_webhook_other
    \/ stripe_webhook_no_metadata
    \/ \E u \in Users, c \in Customers : stripe_webhook_completed(u, c, "personal")

Spec == Init /\ [][Next]_vars

(***************************************************************************)
(* SpecFetch: fetch_crimes_near_location applied to coordinates and radii  *)
(* inside and outside their ranges.                                        *)
(***************************************************************************)
Latitudes == {-91, -90, -1, 0, 1, HomeLat, 90, 91}
Longitudes == {-181, -180, HomeLon, 0, 180, 181}
Radii == {-DefaultRadius, 0, DefaultRadius}

InitFetch ==
    /\ resp \in BotResponses
    /\ brief = NotRun
    /\ BotIdle

\* one call; `sent` is the GETs it made, `last` the call and how it ended
FetchCrimes(lat, lon, radius) ==
    /\ last = NoResponse
    /\ LET f == fetch_crimes_near_location(lat, lon, radius, resp)
       IN /\ sent' = f.requests
          /\ last' = [kind |-> "fetch_crimes_near_location",
                      lat |-> lat, lon |-> lon, radius |-> radius,
                      exc |-> f.exc, crimes |-> f.crimes]
    /\ UNCHANGED <<resp, brief, users, pending, user_data, conv, shown>>

NextFetch ==
    \E lat \in Latitudes, lon \in Longitudes, radius \in Radii :
        FetchCrimes(lat, lon, radius)

SpecFetch == InitFetch /\ [][NextFetch]_vars

(***************************************************************************)
(* Properties of the brief generator, checked under SpecBrief.             *)
(***************************************************************************)
Ran == brief # NotRun
FetchOk == resp.kind = "ok"
Crimes == IF FetchOk THEN resp.crimes ELSE <<>>

CategoryOf(crime) == Get(crime, "primary_type")
CategoriesIn(crimes) == {CategoryOf(crimes[i]) : i \in DOMAIN crimes}
CountOf(crimes, c) == Cardinality({i \in DOMAIN crimes : CategoryOf(crimes[i]) = c})
FirstSeen(crimes, c) ==
    CHOOSE i \in DOMAIN crimes :
        /\ CategoryOf(crimes[i]) = c
        /\ \A j \in 1..(i - 1) : CategoryOf(crimes[j]) # c

\* C1: a failed feed request never gives the caller of generate_brief what a
\* successful request with zero incidents gives it (the all-clear brief).
C1_FailedFetchIsDistinct ==
    (Ran /\ resp.kind \in FailureKinds)
        => /\ brief.kind # "all_clear"
           /\ brief # generate_brief(HomeLat, HomeLon, HomeAddress, [kind |-> "ok", crimes |-> <<>>])

\* C3: for an empty incident list generate_brief returns the all-clear brief:
\* zero incidents, and no ranking, riskiest time or day, recommendations or
\* elevated-activity line.
C3_EmptyListIsAllClear ==
    (Ran /\ FetchOk /\ resp.crimes = <<>>)
        => /\ brief.kind = "all_clear"
           /\ brief.incidents = 0
           /\ DOMAIN brief = {"kind", "address", "incidents"}

C3_Witness == Ran /\ FetchOk /\ resp.crimes = <<>> /\ brief.kind = "all_clear"

\* C4: for a non-empty incident list the ranking has at most 3 entries (all the
\* categories when there are fewer), each with the number of incidents of
\* exactly that category, in descending order of count, equal counts in
\* first-seen order, and no category left out outranks one that is in; the
\* brief lists these entries with these counts.
C4_RankingTop3 ==
    (Ran /\ FetchOk /\ resp.crimes # <<>>)
        => LET crimes == resp.crimes
               top == TopCrimes(crimes)
               cats == CategoriesIn(crimes)
               Before(a, b) ==
                   \/ CountOf(crimes, a) > CountOf(crimes, b)
                   \/ /\ CountOf(crimes, a) = CountOf(crimes, b)
                      /\ FirstSeen(crimes, a) < FirstSeen(crimes, b)
           IN /\ Len(top) <= 3
              /\ Len(top) = (IF Cardinality(cats) < 3 THEN Cardinality(cats) ELSE 3)
              /\ \A i \in DOMAIN top :
                    /\ top[i][1] \in cats
                    /\ top[i][2] = CountOf(crimes, top[i][1])
              /\ \A i, j \in DOMAIN top : i < j => Before(top[i][1], top[j][1])
              /\ \A c \in cats :
                    (\A i \in DOMAIN top : top[i][1] # c)
                        => \A i \in DOMAIN top : Before(top[i][1], c)
              /\ brief.kind = "report"
                    => /\ Len(brief.breakdown) = Len(top)
                       /\ \A i \in DOMAIN top :
                            brief.breakdown[i] = <<Title(top[i][1]), top[i][2]>>

C4_Witness ==
    /\ Ran /\ FetchOk
    /\ brief.kind = "report"
    /\ Cardinality(CategoriesIn(resp.crimes)) > 3
    /\ Len(brief.breakdown) = 3
    /\ brief.breakdown[1][2] = brief.breakdown[2][2]

\* C5: the riskiest bucket and day do not depend on the order of the incidents:
\* every permutation of the incident list yields the same riskiest bucket and
\* the same riskiest day.
C5_RiskiestIgnoresOrder ==
    (Ran /\ FetchOk /\ brief.kind = "report" /\ Len(resp.crimes) <= MaxDateLen)
        => \A p \in Permutations(DOMAIN resp.crimes) :
              LET other == Summarize([i \in DOMAIN resp.crimes |-> resp.crimes[p[i]]],
                                     HomeAddress)
              IN other.kind = "report"
                    => /\ other.riskiest_time = brief.riskiest_time
                       /\ other.riskiest_day = brief.riskiest_day

IndexIn(xs, x) == CHOOSE i \in DOMAIN xs : xs[i] = x /\ \A j \in 1..(i - 1) : xs[j] # x

\* C6: the recommendations of a brief number at most 3, hold no string twice,
\* and are the advisories of the top categories in the order in which each
\* first occurs.
C6_RecommendationsDeduped ==
    (Ran /\ brief.kind = "report")
        => LET recs == brief.recommendations
               raw == RawRecommendations(TopCrimes(resp.crimes))
           IN /\ Len(recs) <= 3
              /\ \A i, j \in DOMAIN recs : i # j => recs[i] # recs[j]
              /\ \A i \in DOMAIN recs : \E k \in DOMAIN raw : raw[k] = recs[i]
              /\ \A i, j \in DOMAIN recs :
                    i < j => IndexIn(raw, recs[i]) < IndexIn(raw, recs[j])
              /\ Len(recs) < 3
                    => \A k \in DOMAIN raw : \E i \in DOMAIN recs : recs[i] = raw[k]

C6_Witness ==
    /\ Ran /\ brief.kind = "report"
    /\ Len(RawRecommendations(TopCrimes(resp.crimes))) = 3
    /\ Len(brief.recommendations) = 2

Rules == {<<THEFT, RecTheft>>, <<BATTERY, RecBattery>>,
          <<BURGLARY, RecBurglary>>, <<ROBBERY, RecRobbery>>}

\* C7: every rule whose keyword occurs, in any letter case, in a top-3
\* category contributes its advisory to the recommendations.
C7_RulesCaseInsensitiveIndependent ==
    (Ran /\ brief.kind = "report")
        => LET top == TopCrimes(resp.crimes)
           IN \A i \in DOMAIN top : \A r \in Rules :
                 Contains(r[1], Upper(top[i][1]))
                    => \E k \in DOMAIN brief.recommendations :
                          brief.recommendations[k] = r[2]

\* C8: the brief carries the elevated-activity line exactly when it reports
\* more than 50 incidents, and it reports as many incidents as the list holds.
C8_ElevatedIffOver50 ==
    (Ran /\ brief.kind = "report")
        => /\ brief.incidents = Len(resp.crimes)
           /\ brief.elevated <=> (brief.incidents > 50)
           /\ brief.incidents \in 1..50 => ~brief.elevated
           /\ brief.incidents >= 51 => brief.elevated

C8_Witness ==
    /\ Ran /\ brief.kind = "report"
    /\ brief.incidents = 51
    /\ brief.elevated

\* the four buckets as half-open intervals of hours
Intervals == {<<18, 24, Evening>>, <<0, 6, LateNight>>,
              <<6, 12, Morning>>, <<12, 18, Afternoon>>}
IntervalsOf(h) == {b \in Intervals : b[1] <= h /\ h < b[2]}

\* C9: every hour 0..23 lies in exactly one of the four intervals and is
\* tallied under that interval's bucket, and under no other: the brief for a
\* single incident at hour h names that bucket, with 1 incident in it.
C9_HoursPartitioned ==
    /\ \A h \in 0..23 :
          /\ Cardinality(IntervalsOf(h)) = 1
          /\ \A b \in IntervalsOf(h) : Bucket(h) = b[3]
    /\ (Ran /\ FetchOk /\ Len(resp.crimes) = 1 /\ resp.crimes[1] \in HourIncidents)
          => LET h == resp.crimes[1].date.h
                 t == TimeTally(resp.crimes)
             IN /\ Len(t.time_blocks) = 1
                /\ \A b \in IntervalsOf(h) : t.time_blocks = <<(<<b[3], 1>>)>>
                /\ brief.kind = "report"
                /\ \A b \in IntervalsOf(h) : brief.riskiest_time = b[3]
                /\ brief.riskiest_count = 1

C9_Witness ==
    /\ Ran /\ FetchOk /\ Len(resp.crimes) = 1 /\ resp.crimes[1] \in HourIncidents
    /\ resp.crimes[1].date.h = 5
    /\ brief.riskiest_time = LateNight

\* a record whose 'date' is an ISO text naming a real calendar day and hour
WellFormedTimestamp(crime) ==
    /\ "date" \in DOMAIN crime
    /\ crime.date.kind = "iso"
    /\ crime.date.mo \in 1..12
    /\ crime.date.d \in 1..DaysInMonth(crime.date.y, crime.date.mo)
    /\ crime.date.h \in 0..23

\* C10: the bucket tallies and the day tallies each sum to the number of
\* incidents with a parseable timestamp; the other incidents are skipped there
\* but counted in the reported incident count, and, every record having a
\* category, a brief is returned.
C10_BadTimestampsSkippedNotDropped ==
    (Ran /\ FetchOk /\ resp.crimes # <<>>)
        => LET crimes == resp.crimes
               t == TimeTally(crimes)
               n == Cardinality({i \in DOMAIN crimes : WellFormedTimestamp(crimes[i])})
           IN /\ SumCounts(t.time_blocks) = n
              /\ SumCounts(t.days) = n
              /\ None \notin CategoriesIn(crimes) => brief.kind = "report"
              /\ brief.kind = "report"
                    => /\ brief.incidents = Len(crimes)
                       /\ brief.riskiest_count <= n
                       /\ (n = 0) <=> (brief.riskiest_time = "unknown")
                       /\ (n = 0) <=> (brief.riskiest_day = "unknown")

C10_Witness ==
    /\ Ran /\ FetchOk /\ brief.kind = "report"
    /\ brief.incidents = 3
    /\ brief.riskiest_count = 1
    /\ \E i \in DOMAIN resp.crimes : "date" \notin DOMAIN resp.crimes[i]
    /\ \E i \in DOMAIN resp.crimes :
            "date" \in DOMAIN resp.crimes[i] /\ resp.crimes[i].date = February30

(***************************************************************************)
(* Properties of the bot, checked under Spec.                              *)
(***************************************************************************)
Sends(kind) == \E i \in DOMAIN sent : sent[i].kind = kind
AfterCrime == last.kind = "crime_command"

Fetched == last.kind = "fetch_crimes_near_location"

\* a positive radius, a latitude in [-90, 90] other than 0 and a longitude in
\* [-180, 180]
ValidInput(lat, lon, radius) ==
    /\ radius > 0
    /\ lat \in -90..90 /\ lat # 0
    /\ lon \in -180..180

\* a box with no interior: a bound that does not lie below its opposite
Degenerate(box) ==
    \/ box.min_lat[1] >= box.max_lat[1]
    \/ box.min_lon[1] >= box.max_lon[1]

\* C11: a call of fetch_crimes_near_location with invalid input (a radius of 0
\* or less, a latitude outside [-90, 90] or equal to 0, a longitude outside
\* [-180, 180]) ends by raising, with no request made to the feed, and so
\* never searches a degenerate or substituted area.
C11_InvalidInputFailsBeforeRequest ==
    (Fetched /\ ~ValidInput(last.lat, last.lon, last.radius))
        => /\ last.exc # "none"
           /\ sent = <<>>
           /\ \A i \in DOMAIN sent : ~Degenerate(sent[i].where)

\* C12 (under SpecBrief): for every non-empty incident list the feed delivers,
\* records without 'primary_type' included, generate_brief returns a brief and
\* raises nothing.
C12_BriefForEveryNonEmptyList ==
    (Ran /\ FetchOk /\ resp.crimes # <<>>) => brief.kind = "report"

(***************************************************************************)
(* Properties of the subscription state, checked under Spec.               *)
(***************************************************************************)
\* the request just handled was a verified checkout.session.completed event
\* whose metadata names user u
CompletedFor(op, u) ==
    /\ op.kind = "stripe_webhook"
    /\ op.verified
    /\ op.type = "checkout.session.completed"
    /\ "user_id" \in DOMAIN op
    /\ op.user_id = u

BotCommands ==
    {"start_command", "setlocation_command", "subscribe_command", "crime_command"}

\* C13: nobody is active at the start, and a user becomes active only in the
\* step that handles a verified checkout.session.completed event naming that
\* user; a webhook request whose payload or signature is invalid is answered
\* with status 400 and leaves the users table as it was; no bot command
\* changes whether any user is active.
C13_ActiveOnlyByVerifiedWebhook ==
    /\ \A u \in Users : ~is_active(users, u)
    /\ [][/\ \A u \in Users :
               (~is_active(users, u) /\ is_active(users', u))
                   => CompletedFor(last', u)
          /\ (last'.kind = "stripe_webhook" /\ ~last'.verified)
               => /\ users' = users
                  /\ Len(sent') = 1
                  /\ sent'[1].kind = "http" /\ sent'[1].status = 400
          /\ last'.kind \in BotCommands
               => \A u \in Users : is_active(users', u) <=> is_active(users, u)]_vars

C13_Witness ==
    \E u \in Users :
        /\ CompletedFor(last, u)
        /\ is_active(users, u)
        /\ sent = <<[kind |-> "http", status |-> 200]>>

(***************************************************************************)
(* Properties of the saved address, checked under Spec.                    *)
(***************************************************************************)
\* the update just handled was answered with "Location saved" for `address`
SavedReply(address) ==
    /\ last.kind \in {"handle_location", "confirm_address_callback"}
    /\ sent = <<[kind |-> "location_saved", address |-> address]>>

Addresses == {Home.address, Wrigley.address} \cup {CoordText(loc) : loc \in SharedLocations}

\* C14: right after the bot answered "Location saved" with an address, that
\* address is the one stored for the user: get_user_address returns it and a
\* /crime that follows is not told to set a location first.
C14_SavedReplyMeansStored ==
    \A a \in Addresses :
        SavedReply(a)
            => /\ get_user_address(users, last.user) # NULL
               /\ get_user_address(users, last.user).address = a
               /\ \A r \in BotResponses :
                     CrimeReplies(last.user, r) # <<Msg("set_location_first")>>

\* the update just handled was the press of a candidate button, answered with
\* "Location saved"
PressedAndSaved ==
    /\ last.kind = "confirm_address_callback"
    /\ "label" \in DOMAIN last
    /\ Len(sent) = 1 /\ sent[1].kind = "location_saved"

\* C15: when the press of a candidate button is answered with "Location
\* saved", the address saved (the one the reply names and, for a registered
\* user, the one stored) is the label of the pressed button's candidate,
\* whatever searches the user made before.
C15_SavedIsPressedCandidate ==
    PressedAndSaved
        => /\ sent[1].address = last.label
           /\ users[last.user] # NoRow => users[last.user].home.address = last.label

====
